---- MODULE Spec2Model ----
(***************************************************************************)
(* Model of the Apple Watch MCP server: the tool-call handler, the health  *)
(* reader's source resolver (live-sync snapshot, XML export, mock data),   *)
(* the XML export parser with its size guard and parse timer, and the      *)
(* metric extractors.  The repository holds several drafts of the same     *)
(* classes; the drafts are told apart by a version number:                 *)
(*   server  1 = part_001:10-214      2 = part_000:184-478                 *)
(*   reader  1 = src/appleHealth.ts   2 = part_002:225-377                 *)
(*           3 = part_002:398-639                                          *)
(*   parser  1 = part_002:28-204      2 = part_001:246-467                 *)
(* Numbers are JavaScript numbers kept in tenths (75 bpm is 750, 7.5 h is  *)
(* 75), so that fractional values and Math.round are visible.              *)
(***************************************************************************)
EXTENDS Integers, Sequences, FiniteSets, TLC

(***************************************************************************)
(* JavaScript values                                                       *)
(***************************************************************************)
Undef == [t |-> "undef", v |-> 0, s |-> ""]
JsNull == [t |-> "null", v |-> 0, s |-> ""]
NaN == [t |-> "nan", v |-> 0, s |-> ""]
Num(x) == [t |-> "num", v |-> x, s |-> ""]
Str(x) == [t |-> "str", v |-> 0, s |-> x]
\* a whole number n as a JavaScript number
Whole(n) == Num(n * 10)

\* typeof x === 'number' and x is not NaN
IsNumeric(x) == x.t = "num"
IsInteger(x) == x.t = "num" /\ x.v % 10 = 0

\* ToBoolean
Truthy(x) ==
  CASE x.t = "num" -> x.v # 0
    [] x.t = "str" -> x.s # ""
    [] OTHER -> FALSE

\* a || b
JsOr(a, b) == IF Truthy(a) THEN a ELSE b

\* Number(s) for the strings a snapshot field can hold
StringToNumber(s) ==
  CASE s = "" -> Num(0)
    [] s = "70" -> Num(700)
    [] OTHER -> NaN

\* ToNumber
ToNumber(x) ==
  CASE x.t = "num" -> x
    [] x.t = "null" -> Num(0)
    [] x.t = "str" -> StringToNumber(x.s)
    [] OTHER -> NaN

\* String(x) for the operands the reader concatenates
ToStr(x) ==
  CASE x.t = "str" -> x.s
    [] x = Num(600) -> "60"
    [] x.t = "undef" -> "undefined"
    [] x.t = "null" -> "null"
    [] x.t = "nan" -> "NaN"
    [] OTHER -> "<number>"

\* a - b
JsSub(a, b) ==
  LET na == ToNumber(a)
      nb == ToNumber(b)
  IN IF na.t = "nan" \/ nb.t = "nan" THEN NaN ELSE Num(na.v - nb.v)

\* a + b : concatenation as soon as one operand is a string
JsAdd(a, b) ==
  IF a.t = "str" \/ b.t = "str"
  THEN Str(ToStr(a) \o ToStr(b))
  ELSE LET na == ToNumber(a)
           nb == ToNumber(b)
       IN IF na.t = "nan" \/ nb.t = "nan" THEN NaN ELSE Num(na.v + nb.v)

\* a > b with a number on the right
JsGt(a, b) ==
  LET na == ToNumber(a)
      nb == ToNumber(b)
  IN na.t = "num" /\ nb.t = "num" /\ na.v > nb.v

\* Math.round: half rounds up, NaN stays NaN
MathRound(x) ==
  IF x.t # "num" THEN NaN ELSE Num(((x.v + 5) \div 10) * 10)

(***************************************************************************)
(* Dates: a local calendar day (day 0 is 1 January 2025) and the           *)
(* milliseconds since local midnight.  An unparsable date string gives the *)
(* Invalid Date, whose getTime() is NaN.                                   *)
(***************************************************************************)
MsPerDay == 24 * 60 * 60 * 1000
MsPerHour == 60 * 60 * 1000

InvalidDate == [day |-> 0, ms |-> -1]
Date(d, m) == [day |-> d, ms |-> m]
IsValidDate(d) == d.ms >= 0

IsLeap(y) == (y % 4 = 0 /\ y % 100 # 0) \/ y % 400 = 0

MonthLen(y, m) ==
  CASE m = 1 -> IF IsLeap(y) THEN 29 ELSE 28
    [] m \in {3, 5, 8, 10} -> 30
    [] OTHER -> 31

RECURSIVE CivilFrom(_, _, _, _)
\* the calendar month holding day index day; start is the index of the
\* first day of month m (0 = January) of year y
CivilFrom(y, m, start, day) ==
  IF day < start
  THEN LET py == IF m = 0 THEN y - 1 ELSE y
           pm == IF m = 0 THEN 11 ELSE m - 1
       IN CivilFrom(py, pm, start - MonthLen(py, pm), day)
  ELSE IF day >= start + MonthLen(y, m)
  THEN LET ny == IF m = 11 THEN y + 1 ELSE y
           nm == IF m = 11 THEN 0 ELSE m + 1
       IN CivilFrom(ny, nm, start + MonthLen(y, m), day)
  ELSE [year |-> y, month |-> m, date |-> day - start + 1, start |-> start]

Civil(day) == CivilFrom(2025, 0, 0, day)

\* Date.prototype.getDate / getMonth / getHours
GetDate(d) == Civil(d.day).date
GetMonth(d) == Civil(d.day).month
GetHours(d) == d.ms \div MsPerHour

\* a setDate that takes a day number below 1 for the first of the month
SetDateClamped(d, k) ==
  [d EXCEPT !.day = Civil(d.day).start + (IF k < 1 THEN 1 ELSE k) - 1]

\* Date.prototype.setDate(k): day k of the date's month, k <= 0 and k past
\* the month's end running over into the neighbouring months
SetDate(d, k) == [d EXCEPT !.day = Civil(d.day).start + k - 1]

\* Date.prototype.setHours(h, m, s, ms)
SetHours(d, h, m, s, ms) ==
  [d EXCEPT !.ms = ((h * 60 + m) * 60 + s) * 1000 + ms]

\* a.getTime() - b.getTime() in milliseconds, for valid dates
DiffMs(a, b) == (a.day - b.day) * MsPerDay + (a.ms - b.ms)

\* a <= b on Date objects; every comparison with the Invalid Date is false
DateLE(a, b) ==
  /\ IsValidDate(a)
  /\ IsValidDate(b)
  /\ (a.day < b.day \/ (a.day = b.day /\ a.ms <= b.ms))

\* the date ms milliseconds after d (0 <= ms)
AddMs(d, ms) ==
  LET total == d.ms + ms
  IN Date(d.day + (total \div MsPerDay), total % MsPerDay)

\* the date ms milliseconds before d (0 <= ms)
SubMs(d, ms) ==
  LET total == d.ms - ms
  IN Date(d.day + (total \div MsPerDay), total % MsPerDay)

(***************************************************************************)
(* Program constants                                                       *)
(***************************************************************************)
MAX_FILE_SIZE_MB == 100
PARSE_TIMEOUT_MS == 10000

Timeframes == {"today", "week", "month"}

(***************************************************************************)
(* HealthData and the live-sync reader (AppleHealthReader, readers 2, 3)   *)
(***************************************************************************)
HealthData(st, re, av, mx, sl, ca, wo) ==
  [steps |-> st,
   heartRate |-> [resting |-> re, average |-> av, max |-> mx],
   sleepHours |-> sl,
   activeCalories |-> ca,
   workouts |-> wo]

NoHealthData == HealthData(Undef, Undef, Undef, Undef, Undef, Undef, Undef)

\* the parsed content of health-data.json (iPhoneHealthData without timestamp)
iPhoneHealthData(st, hr, sl, ca) ==
  [steps |-> st, heartRate |-> hr, sleepHours |-> sl, activeCalories |-> ca]

NoiPhoneData == iPhoneHealthData(Undef, Undef, Undef, Undef)

\* the timestamp test with <= for <
WithinLast24HoursInclusive(dataTime, now) ==
  /\ IsValidDate(dataTime)
  /\ DiffMs(now, dataTime) <= 24 * MsPerHour

\* the test of the timestamp: hoursDiff < 24
WithinLast24Hours(dataTime, now) ==
  /\ IsValidDate(dataTime)
  /\ DiffMs(now, dataTime) < 24 * MsPerHour

\* readiPhoneData returns jsonData (TRUE) or null (FALSE).  file.kind says
\* what existsSync, readFileSync and JSON.parse meet; file.ts is "none" for
\* a missing or empty timestamp, "invalid" for one new Date cannot parse
readiPhoneDataReturns(file, now) ==
  /\ file.kind = "object"
  /\ file.ts # "none"
  /\ WithinLast24Hours(IF file.ts = "date" THEN file.time ELSE InvalidDate, now)

processiPhoneData(iPhoneData, timeframe) ==
  HealthData(
    JsOr(iPhoneData.steps, Whole(0)),
    JsSub(JsOr(iPhoneData.heartRate, Whole(65)), Whole(10)),
    JsOr(iPhoneData.heartRate, Whole(75)),
    JsAdd(JsOr(iPhoneData.heartRate, Whole(75)), Whole(60)),
    JsOr(iPhoneData.sleepHours, Num(75)),
    JsOr(iPhoneData.activeCalories, Whole(400)),
    IF timeframe = "today"
    THEN (IF Truthy(iPhoneData.activeCalories)
             /\ JsGt(iPhoneData.activeCalories, Whole(300))
          THEN Whole(1) ELSE Whole(0))
    ELSE Whole(5))

\* reader 1 has no live-sync step
HasLiveSync(ver) == ver \in {2, 3}

\* a resolver that looks at the export whatever readiPhoneData returned
AfterStep1ExportFirst(fresh) == "export"

\* what getHealthSummary does with the value readiPhoneData returned
AfterStep1(fresh) == IF fresh THEN "iphone" ELSE "export"

\* checkForAppleHealthData: readers 1 and 2 test existence only; reader 3
\* also reads the first 1000 bytes and looks for 'HealthData' and '<?xml'
checkForAppleHealthData(ver, export) ==
  IF ver = 3
  THEN export.exists /\ export.readable /\ export.header
  ELSE export.exists

(***************************************************************************)
(* Synthetic generator.  A draw is Math.random() in thousandths.           *)
(***************************************************************************)
\* Math.floor(Math.random() * n)
RandomBelow(r, n) == (r * n) \div 1000

\* Math.round((Math.random() * span + base + k * step) * 10) / 10, with
\* span, base and step given in tenths
RandomTenths(r, span, base, k, step) ==
  (r * span + 1000 * (base + k * step) + 500) \div 1000

mockSeed(ver, now) ==
  IF ver = 3
  THEN GetDate(now) + GetMonth(now) + GetHours(now)
  ELSE GetDate(now) + GetMonth(now)

mockToday(seed, rnd) ==
  HealthData(
    Whole(RandomBelow(rnd.steps, 4000) + 7000 + seed * 100),
    Whole(RandomBelow(rnd.resting, 8) + 50 + (seed % 5)),
    Whole(RandomBelow(rnd.average, 15) + 75 + (seed % 8)),
    Whole(RandomBelow(rnd.max, 25) + 145 + (seed % 10)),
    Num(RandomTenths(rnd.sleep, 15, 70, seed % 3, 2)),
    Whole(RandomBelow(rnd.calories, 200) + 350 + seed * 20),
    Whole(IF seed % 3 = 0 THEN 1 ELSE 0))

mockWeek(seed, rnd) ==
  HealthData(
    Whole(RandomBelow(rnd.steps, 1500) + 8500 + seed * 50),
    Whole(RandomBelow(rnd.resting, 6) + 52 + (seed % 4)),
    Whole(RandomBelow(rnd.average, 12) + 76 + (seed % 6)),
    Whole(RandomBelow(rnd.max, 20) + 150 + (seed % 8)),
    Num(RandomTenths(rnd.sleep, 10, 71, seed % 2, 3)),
    Whole(RandomBelow(rnd.calories, 400) + 2800 + seed * 30),
    Whole(RandomBelow(rnd.workouts, 3) + 4 + (seed % 3)))

mockMonth(seed, rnd) ==
  HealthData(
    Whole(RandomBelow(rnd.steps, 1000) + 9000 + seed * 25),
    Whole(RandomBelow(rnd.resting, 4) + 53 + (seed % 3)),
    Whole(RandomBelow(rnd.average, 8) + 77 + (seed % 5)),
    Whole(RandomBelow(rnd.max, 15) + 155 + (seed % 7)),
    Num(RandomTenths(rnd.sleep, 8, 73, seed % 2, 2)),
    Whole(RandomBelow(rnd.calories, 1500) + 12000 + seed * 100),
    Whole(RandomBelow(rnd.workouts, 5) + 18 + (seed % 4)))

\* a generator that returns mockData[timeframe] as it is: undefined for a
\* timeframe that is no key of mockData
getRealisticMockDataNoFallback(ver, timeframe, now, rnd) ==
  LET seed == mockSeed(ver, now)
  IN CASE timeframe = "today" -> mockToday(seed, rnd)
       [] timeframe = "week" -> mockWeek(seed, rnd)
       [] timeframe = "month" -> mockMonth(seed, rnd)
       [] OTHER -> NoHealthData

\* mockData[timeframe] || mockData.today
getRealisticMockData(ver, timeframe, now, rnd) ==
  LET seed == mockSeed(ver, now)
  IN CASE timeframe = "week" -> mockWeek(seed, rnd)
       [] timeframe = "month" -> mockMonth(seed, rnd)
       [] OTHER -> mockToday(seed, rnd)

(***************************************************************************)
(* AppleHealthXMLParser: window, filters and the five extractions          *)
(***************************************************************************)
StepCount == "HKQuantityTypeIdentifierStepCount"
HeartRate == "HKQuantityTypeIdentifierHeartRate"
RestingHeartRate == "HKQuantityTypeIdentifierRestingHeartRate"
SleepAnalysis == "HKCategoryTypeIdentifierSleepAnalysis"
ActiveEnergyBurned == "HKQuantityTypeIdentifierActiveEnergyBurned"

\* a Record element's attributes ($): value is the attribute's text,
\* startDate and endDate what new Date makes of the attribute
HealthRecord(ty, val, sd, ed) ==
  [type |-> ty, value |-> val, startDate |-> sd, endDate |-> ed]

\* parseFloat on the value texts of the record pool
parseFloat(str) ==
  CASE str = "8000" -> Num(80000)
    [] str = "1234.5" -> Num(12345)
    [] str = "350.6" -> Num(3506)
    [] str = "72" -> Num(720)
    [] str = "95.5" -> Num(955)
    [] str = "58" -> Num(580)
    [] str = "54" -> Num(540)
    [] str = "-50" -> Num(-500)
    [] OTHER -> NaN

\* the size test on whole megabytes (fileSizeMB truncated before the test)
FileTooLargeTruncated(size) == size \div (1024 * 1024) > MAX_FILE_SIZE_MB

\* the size test of parseHealthData: fileSizeMB > MAX_FILE_SIZE_MB, where
\* fileSizeMB = size / 1024 / 1024 (size in bytes)
FileTooLarge(size) == size > MAX_FILE_SIZE_MB * 1024 * 1024

\* parser 1 has neither the size guard nor the timer
HasSizeGuard(ver) == ver = 2

\* a getDateRange that ends the window at the day's first millisecond
getDateRangeEndsAtMidnight(timeframe, now) ==
  [startDate |->
     CASE timeframe = "today" -> SetHours(now, 0, 0, 0, 0)
       [] timeframe = "week" ->
            SetHours(SetDate(now, GetDate(now) - 7), 0, 0, 0, 0)
       [] timeframe = "month" ->
            SetHours(SetDate(now, GetDate(now) - 30), 0, 0, 0, 0)
       [] OTHER -> now,
   endDate |-> SetHours(now, 0, 0, 0, 0)]

getDateRange(timeframe, now) ==
  LET endDate == SetHours(now, 23, 59, 59, 999)
      startDate ==
        CASE timeframe = "today" -> SetHours(now, 0, 0, 0, 0)
          [] timeframe = "week" ->
               SetHours(SetDate(now, GetDate(now) - 7), 0, 0, 0, 0)
          [] timeframe = "month" ->
               SetHours(SetDate(now, GetDate(now) - 30), 0, 0, 0, 0)
          [] OTHER -> now
  IN [startDate |-> startDate, endDate |-> endDate]

\* a window test that leaves out the two bounds
InRangeExclusive(d, range) ==
  /\ DateLE(range.startDate, d) /\ d # range.startDate
  /\ DateLE(d, range.endDate) /\ d # range.endDate

\* recordDate >= startDate && recordDate <= endDate
InRange(d, range) == DateLE(range.startDate, d) /\ DateLE(d, range.endDate)

\* a type test under which a record of no known kind counts as a step record
OfTypeOrUnknown(records, ty) ==
  SelectSeq(records,
            LAMBDA r : \/ r.type = ty
                       \/ /\ ty = StepCount
                          /\ r.type \notin {StepCount, HeartRate, RestingHeartRate,
                                            SleepAnalysis, ActiveEnergyBurned})

\* records.filter(r => r.$.type === ty)
OfType(records, ty) == SelectSeq(records, LAMBDA r : r.type = ty)

RECURSIVE SumValues(_)
\* reduce((total, record) => total + parseFloat(record.$.value), 0)
SumValues(records) ==
  IF records = <<>> THEN Num(0)
  ELSE JsAdd(SumValues(SubSeq(records, 1, Len(records) - 1)),
             parseFloat(records[Len(records)].value))

RECURSIVE MaxValue(_)
\* Math.max(...heartRates): NaN as soon as one value is NaN
MaxValue(records) ==
  LET x == parseFloat(records[1].value)
  IN IF Len(records) = 1 THEN x
     ELSE LET m == MaxValue(Tail(records))
          IN IF x.t = "nan" \/ m.t = "nan" THEN NaN
             ELSE IF x.v >= m.v THEN x ELSE m

\* Math.round(sum / n)
RoundedMean(sum, n) ==
  IF sum.t # "num" THEN NaN
  ELSE Num(((2 * sum.v + 10 * n) \div (20 * n)) * 10)

\* sort((a, b) => b.startDate - a.startDate)[0]: the sort is stable, so
\* of the records with the latest start the first in document order
LatestIndex(records) ==
  CHOOSE i \in 1..Len(records) :
    /\ \A j \in 1..Len(records) :
         DateLE(records[j].startDate, records[i].startDate)
    /\ \A j \in 1..(i - 1) : records[j].startDate # records[i].startDate

extractSteps(records) == SumValues(OfType(records, StepCount))

extractHeartRate(records) ==
  LET heartRateRecords == OfType(records, HeartRate)
      restingHRRecords == OfType(records, RestingHeartRate)
  IN IF Len(heartRateRecords) = 0
     THEN [resting |-> Whole(60), average |-> Whole(80), max |-> Whole(120)]
     ELSE [resting |->
             IF Len(restingHRRecords) > 0
             THEN MathRound(parseFloat(
                    restingHRRecords[LatestIndex(restingHRRecords)].value))
             ELSE Whole(60),
           average |->
             RoundedMean(SumValues(heartRateRecords), Len(heartRateRecords)),
           max |-> MathRound(MaxValue(heartRateRecords))]

RECURSIVE SumDurations(_)
\* the summed endDate.getTime() - startDate.getTime(), in milliseconds
SumDurations(records) ==
  IF records = <<>> THEN Num(0)
  ELSE LET r == records[Len(records)]
           rest == SumDurations(SubSeq(records, 1, Len(records) - 1))
       IN IF rest.t # "num" \/ ~IsValidDate(r.startDate)
             \/ ~IsValidDate(r.endDate)
          THEN NaN
          ELSE Num(rest.v + DiffMs(r.endDate, r.startDate))

\* an extractSleep without the early return for an empty record set
extractSleepNoDefault(records) ==
  LET total == SumDurations(OfType(records, SleepAnalysis))
  IN IF total.t # "num" THEN NaN
     ELSE Num((2 * total.v + (MsPerHour \div 10)) \div (2 * (MsPerHour \div 10)))

\* Math.round((totalSleepMinutes / 60) * 10) / 10, in tenths of an hour
extractSleep(records) ==
  LET sleepRecords == OfType(records, SleepAnalysis)
      total == SumDurations(sleepRecords)
  IN IF Len(sleepRecords) = 0 THEN Num(75)
     ELSE IF total.t # "num" THEN NaN
     ELSE Num((2 * total.v + (MsPerHour \div 10)) \div (2 * (MsPerHour \div 10)))

extractActiveCalories(records) ==
  MathRound(SumValues(OfType(records, ActiveEnergyBurned)))

\* xmlResult is the parsed document: its Record and Workout lists
extractHealthMetrics(xmlResult, timeframe, now) ==
  LET range == getDateRange(timeframe, now)
      filteredRecords ==
        SelectSeq(xmlResult.Record, LAMBDA r : InRange(r.startDate, range))
      filteredWorkouts ==
        SelectSeq(xmlResult.Workout, LAMBDA w : InRange(w.startDate, range))
      hr == extractHeartRate(filteredRecords)
  IN HealthData(extractSteps(filteredRecords),
                hr.resting, hr.average, hr.max,
                extractSleep(filteredRecords),
                extractActiveCalories(filteredRecords),
                Whole(Len(filteredWorkouts)))

RECURSIVE SortByStartDesc(_)
\* Array.prototype.sort with (a, b) => b.startDate - a.startDate: by start
\* descending, records with the same start in their former order
SortByStartDesc(records) ==
  IF records = <<>> THEN <<>>
  ELSE LET sorted == SortByStartDesc(SubSeq(records, 1, Len(records) - 1))
           r == records[Len(records)]
           k == Cardinality({i \in 1..Len(sorted) :
                               DateLE(r.startDate, sorted[i].startDate)})
       IN SubSeq(sorted, 1, k) \o <<r>> \o SubSeq(sorted, k + 1, Len(sorted))

\* a sort applied to the array the caller passed in
SortReceiverInput == "records"

\* the array extractHeartRate sorts in place: the one its second filter made
SortReceiver == "restingHRRecords"

\* the arrays extractHeartRate holds when it returns: its argument and the
\* two arrays filter() made, the sorted one in its new order
extractHeartRateArrays(records) ==
  LET made == [records |-> records,
               heartRateRecords |-> OfType(records, HeartRate),
               restingHRRecords |-> OfType(records, RestingHeartRate)]
  IN IF Len(made.heartRateRecords) = 0 \/ Len(made.restingHRRecords) = 0
     THEN made
     ELSE [made EXCEPT ![SortReceiver] = SortByStartDesc(@)]

\* the two filters of extractHealthMetrics
filterByRange(xmlResult, range) ==
  [Record |-> SelectSeq(xmlResult.Record, LAMBDA r : InRange(r.startDate, range)),
   Workout |-> SelectSeq(xmlResult.Workout, LAMBDA w : InRange(w.startDate, range))]

\* the five extractions on the filtered arrays: the HealthData they make
\* and the arrays as they leave them
runExtractions(filtered) ==
  LET hr == extractHeartRate(filtered.Record)
  IN [out |-> HealthData(extractSteps(filtered.Record),
                         hr.resting, hr.average, hr.max,
                         extractSleep(filtered.Record),
                         extractActiveCalories(filtered.Record),
                         Whole(Len(filtered.Workout))),
      arrays |-> [Record |-> extractHeartRateArrays(filtered.Record).records,
                  Workout |-> filtered.Workout]]

(***************************************************************************)
(* Bounds and input pools                                                  *)
(***************************************************************************)
MaxRecords == 2
MaxWorkouts == 1

\* 18 July 2025 at 15:00:00.000 and at 23:59:55.000 local time
NowSamples == {Date(198, 15 * MsPerHour), Date(198, MsPerDay - 5000)}

TimeframeInputs == Timeframes \cup {"year"}

ToolNames ==
  {"get_health_summary", "get_workout_details", "get_heart_rate_zones",
   "get_sleep"}

\* health-data.json: kind is "absent" (existsSync false), "unreadable"
\* (readFileSync throws), "badjson" (JSON.parse throws), "null" (the JSON
\* text null: reading .timestamp throws) or "object"
SnapshotFile(kind, ts, time) == [kind |-> kind, ts |-> ts, time |-> time]

SnapshotFiles ==
  {SnapshotFile(k, "none", InvalidDate) :
     k \in {"absent", "unreadable", "badjson", "null", "object"}}
  \cup {SnapshotFile("object", "invalid", InvalidDate)}
  \cup {SnapshotFile("object", "date", t) :
          t \in {Date(197, 15 * MsPerHour),        \* 24 h before 15:00
                 Date(197, 15 * MsPerHour + 1),    \* 24 h less 1 ms
                 Date(198, 16 * MsPerHour)}}       \* later than 15:00

\* the fields a fresh snapshot can carry
SnapshotPool ==
  {iPhoneHealthData(Whole(8420), Whole(75), Num(75), Whole(450)),
   NoiPhoneData,
   iPhoneHealthData(Whole(0), Whole(0), Whole(0), Whole(0)),
   iPhoneHealthData(Whole(-5), Whole(8), Whole(-1), Whole(-20)),
   iPhoneHealthData(Str("abc"), Str("70"), JsNull, Str("abc")),
   iPhoneHealthData(Num(84205), Num(725), Num(64), Num(3005)),
   iPhoneHealthData(Whole(100), Str("abc"), Num(80), Whole(300))}

\* export.xml: size in bytes, header says whether the first 1000 bytes
\* hold 'HealthData' and '<?xml', content is "malformed" (parseString
\* reports an error), "badrecord" (a Record without attributes),
\* "empty" (no Record, no Workout) or "records"; readMs and parseMs are
\* what readFileSync and the parse take; async says whether the library
\* calls back in a later turn of the event loop
ExportFile(ex, hd, sz, rd, co, rms, pms, as) ==
  [exists |-> ex, header |-> hd, size |-> sz, readable |-> rd,
   content |-> co, readMs |-> rms, parseMs |-> pms, async |-> as]

AbsentExport == ExportFile(FALSE, FALSE, 0, FALSE, "empty", 0, 0, FALSE)

ExportFiles ==
  {AbsentExport,
   ExportFile(TRUE, FALSE, 2048, TRUE, "malformed", 5, 20, FALSE),
   ExportFile(TRUE, TRUE, 2048, FALSE, "empty", 5, 20, FALSE),
   ExportFile(TRUE, TRUE, 100 * 1024 * 1024 + 1, TRUE, "empty", 12000, 20, FALSE),
   ExportFile(TRUE, TRUE, 2000000000, TRUE, "empty", 12000, 11000, TRUE),
   ExportFile(TRUE, TRUE, 100 * 1024 * 1024, TRUE, "empty", 5, 20, FALSE),
   ExportFile(TRUE, TRUE, 2048, TRUE, "records", 5, 20, FALSE)}
  \cup {ExportFile(TRUE, TRUE, 2048, TRUE, co, 5, 20, as) :
          co \in {"malformed", "badrecord"}, as \in BOOLEAN}
  \cup {ExportFile(TRUE, TRUE, 2048, TRUE, "empty", t[1], t[2], as) :
          t \in {<<12000, 20>>, <<5, 11000>>, <<5, 9000>>}, as \in BOOLEAN}

RecordPool ==
  {HealthRecord(StepCount, "1234.5", Date(198, 12 * MsPerHour), Date(198, 13 * MsPerHour)),
   HealthRecord(StepCount, "abc", Date(198, 13 * MsPerHour), Date(198, 14 * MsPerHour)),
   HealthRecord(HeartRate, "72", Date(198, 9 * MsPerHour), Date(198, 9 * MsPerHour)),
   HealthRecord(HeartRate, "", Date(198, 11 * MsPerHour), Date(198, 11 * MsPerHour)),
   HealthRecord(SleepAnalysis, "", Date(198, 7 * MsPerHour), Date(198, 1 * MsPerHour))}

Workout(sd) == [startDate |-> sd]

RECURSIVE SeqsUpTo(_, _)
\* the sequences over S of length at most n
SeqsUpTo(S, n) ==
  IF n = 0 THEN {<<>>}
  ELSE LET shorter == SeqsUpTo(S, n - 1)
       IN shorter \cup {Append(q, x) : q \in shorter, x \in S}

EmptyDocument == [Record |-> <<>>, Workout |-> <<>>]

Documents ==
  {[Record |-> rs, Workout |-> ws] :
     rs \in SeqsUpTo(RecordPool, MaxRecords),
     ws \in SeqsUpTo({Workout(Date(198, 8 * MsPerHour))}, MaxWorkouts)}

\* the documents parseString can hand to its callback for a file
DocumentsOf(file) ==
  IF file.content = "records" THEN Documents ELSE {EmptyDocument}

Draws(a, b) ==
  [steps |-> a, resting |-> b, average |-> a, max |-> b,
   sleep |-> a, calories |-> b, workouts |-> a]

\* Math.random() in thousandths: the ends of [0, 1) in four patterns
RandPool == {Draws(a, b) : a \in {0, 999}, b \in {0, 999}}

NoDraws == Draws(0, 0)

\* inputs of the functions called on their own
MaxFnRecords == 3
MaxFnWorkouts == 1

\* 18 July 2025 15:00; 4 January 2025 00:00 and 1 January 2025 00:00:00.001
\* (7 and 30 days earlier lie in 2024); 31 January 2025 23:59:59.999;
\* 1 March 2025 and 1 March 2028 at noon (February before them)
RangeNows ==
  {Date(198, 15 * MsPerHour), Date(3, 0), Date(0, 1), Date(30, MsPerDay - 1),
   Date(59, 12 * MsPerHour), Date(1155, 12 * MsPerHour)}

\* 1, 4, 5 January 2025 at 00:30; 18 July 2025 15:00; 31 December 2025 23:30
MockNows ==
  {Date(0, MsPerHour \div 2), Date(3, MsPerHour \div 2), Date(4, MsPerHour \div 2),
   Date(198, 15 * MsPerHour), Date(364, 23 * MsPerHour + MsPerHour \div 2)}

\* the call of extractHealthMetrics happens on 18 July 2025 at 15:00
ExtractNow == Date(198, 15 * MsPerHour)

\* records of today (one at the day's first millisecond, one at its last),
\* a night's sleep that began at yesterday's last millisecond, a record
\* whose startDate attribute is not a date, and a body-mass record of today,
\* a kind no extraction asks for
FnRecordPool ==
  {HealthRecord(StepCount, "8000", Date(198, 0), Date(198, MsPerHour)),
   HealthRecord(StepCount, "1234.5", InvalidDate, Date(198, 11 * MsPerHour)),
   HealthRecord(HeartRate, "72", Date(198, 9 * MsPerHour), Date(198, 9 * MsPerHour)),
   HealthRecord(RestingHeartRate, "58", Date(198, 6 * MsPerHour), Date(198, 6 * MsPerHour)),
   HealthRecord(RestingHeartRate, "54", Date(198, 8 * MsPerHour), Date(198, 8 * MsPerHour)),
   HealthRecord(SleepAnalysis, "", Date(197, MsPerDay - 1), Date(198, 7 * MsPerHour)),
   HealthRecord(ActiveEnergyBurned, "350.6", Date(198, MsPerDay - 1), Date(199, MsPerHour)),
   HealthRecord("HKQuantityTypeIdentifierBodyMass", "72",
                Date(198, 10 * MsPerHour), Date(198, 11 * MsPerHour))}

\* a workout at today's last millisecond and one at tomorrow's first
FnWorkoutPool == {Workout(Date(198, MsPerDay - 1)), Workout(Date(199, 0))}

FnDocuments ==
  {[Record |-> rs, Workout |-> ws] :
     rs \in SeqsUpTo(FnRecordPool, MaxFnRecords),
     ws \in SeqsUpTo(FnWorkoutPool, MaxFnWorkouts)}

\* directories an export can lie in: the default one and the one nested
\* in it, which is where unzipping the archive in place puts the files
DefaultDir == "Documents/apple_health_export"
NestedDir == "Documents/apple_health_export/apple_health_export"
Dirs == {DefaultDir, NestedDir}

\* the default place of health-data.json and another one
DefaultICloud == "iCloudDrive/health-data.json"
ICloudPaths == {DefaultICloud, "OneDrive/health-data.json"}

\* new Date() while calls are made on the reader directly
DirectNow == Date(198, 15 * MsPerHour)

\* no snapshot, or one written 24 h less 1 ms before DirectNow
DirectSnapshots ==
  {SnapshotFile("absent", "none", InvalidDate),
   SnapshotFile("object", "date", Date(197, 15 * MsPerHour + 1))}

\* no export, a well-formed one, one that is not XML, and one whose
\* parse takes 11 s and calls back in a later turn
DirectExports ==
  {AbsentExport,
   ExportFile(TRUE, TRUE, 2048, TRUE, "empty", 5, 20, FALSE),
   ExportFile(TRUE, FALSE, 2048, TRUE, "malformed", 5, 20, FALSE),
   ExportFile(TRUE, TRUE, 2048, TRUE, "empty", 5, 11000, TRUE)}

CallIds == {1, 2}

(***************************************************************************)
(* State                                                                   *)
(***************************************************************************)
VARIABLES
  serverVer,      \* which draft of AppleWatchMCPServer runs
  readerVer,      \* which draft of AppleHealthReader it owns
  parserVer,      \* which draft of AppleHealthXMLParser the reader owns
  snapshotFile,   \* health-data.json in iCloud Drive
  exportFile,     \* export.xml in the export directory
  request,        \* the CallTool request being answered
  start,          \* new Date() when the request arrived
  elapsed,        \* milliseconds since then
  pc,             \* where the request's handling stands
  ops,            \* the operations the request has invoked, in order
  iPhoneData,     \* what readiPhoneData returned to getHealthSummary
  xmlResult,      \* the document parseString handed to its callback
  timer,          \* the setTimeout of parseWithTimeout
  timerDue,       \* when it is due (in elapsed time)
  callback,       \* the parseString callback
  callbackDue,    \* when the library runs it (in elapsed time)
  promise,        \* the promise parseHealthData returned
  mockOut,        \* what getRealisticMockData last returned
  result,         \* how AppleHealthReader.getHealthSummary completed
  response,       \* what the tool-call handler answered
  log,            \* the console lines written for the request, in order
  fn,             \* the function called on its own: range, extract, mock
  fnVer,          \* the draft of AppleHealthReader whose generator is called
  fnNow,          \* new Date() during the call
  fnTimeframe,    \* the timeframe argument
  fnDoc,          \* the document given to extractHealthMetrics
  fnDraw,         \* the Math.random() values of the call
  fnCalls,        \* how often the function has run
  fnRange,        \* what getDateRange returned
  fnFiltered,     \* the filtered collections as the filters made them
  fnArrays,       \* the same arrays after the extractions ran on them
  fnOut,          \* the HealthData of each run, in order
  healthDataPath, \* AppleHealthReader.healthDataPath: the export directory
  iCloudPath,     \* AppleHealthReader.iCloudPath: where health-data.json is
  exportPath,     \* xmlParser.exportPath: the directory the parser reads
  snapshotAt,     \* the health-data.json found at each iCloud path
  exportAt,       \* the export.xml found in each directory
  calls           \* the getHealthSummary calls made on the reader directly

verVars == <<serverVer, readerVer, parserVer>>
fileVars == <<snapshotFile, exportFile>>
parseVars == <<xmlResult, timer, timerDue, callback, callbackDue, promise>>
fnVars == <<fn, fnVer, fnNow, fnTimeframe, fnDoc, fnDraw, fnCalls, fnRange,
            fnFiltered, fnArrays, fnOut>>
serverVars == <<serverVer, readerVer, parserVer, snapshotFile, exportFile,
                request, start, elapsed, pc, ops, iPhoneData, xmlResult, timer,
                timerDue, callback, callbackDue, promise, mockOut, result,
                response, log>>
readerVars == <<healthDataPath, iCloudPath, exportPath, snapshotAt, exportAt, calls>>
vars == <<serverVars, fnVars, readerVars>>

NoRequest == [name |-> "", timeframe |-> ""]
NoPromise == [state |-> "none", error |-> "", at |-> 0]
NoResult == [kind |-> "none", source |-> "", data |-> NoHealthData]
NoResponse == [kind |-> "none", data |-> NoHealthData]
NoRange == [startDate |-> InvalidDate, endDate |-> InvalidDate]

Returned(source, data) == [kind |-> "return", source |-> source, data |-> data]
Thrown == [kind |-> "throw", source |-> "", data |-> NoHealthData]

Settled(state, error, at) == [state |-> state, error |-> error, at |-> at]

\* new Date() at this point of the request
Now == AddMs(start, elapsed)

Max(a, b) == IF a >= b THEN a ELSE b

(***************************************************************************)
(* Decisions of the handlers                                               *)
(***************************************************************************)
\* server 2 rejects a timeframe outside today, week, month before it calls
\* the reader; server 1 passes whatever it was given
ValidatesTimeframe(ver) == ver = 2

\* the CallTool handler of server 2 wraps its switch in try/catch
HandlerCatches(ver) == ver = 2

\* a reader that lets the parser's error escape
OnXmlFailureRethrow(ver) == "throw"

\* what the reader does when xmlParser.parseHealthData rejects: reader 2
\* catches in parseAppleHealthData, reader 3 re-throws there and catches in
\* getHealthSummary; both return getRealisticMockData(timeframe)
OnXmlFailure(ver) == "mock"

\* a callback that forgets the err test and extracts from what it was given
OnParseErrorIgnored(content) == "extract"

\* the callback of parseString: if (err) { reject(err); return; }
OnParseError(content) == IF content = "malformed" THEN "reject" ELSE "extract"

\* how getHealthSummary completes once the parser's promise is settled
AfterParse(ver, p, data, mock) ==
  IF p.state = "resolved" THEN Returned("export", data)
  ELSE IF OnXmlFailure(ver) = "mock" THEN Returned("mock", mock)
  ELSE Thrown

\* the outcome of the parseString callback: [state, error, data]
CallbackOutcome(file, doc, timeframe, now) ==
  IF OnParseError(file.content) = "reject"
  THEN [state |-> "rejected", error |-> "parse error", data |-> NoHealthData,
        extracted |-> FALSE]
  ELSE IF file.content = "badrecord"
  THEN [state |-> "rejected", error |-> "extraction error",
        data |-> NoHealthData, extracted |-> TRUE]
  ELSE [state |-> "resolved", error |-> "",
        data |-> extractHealthMetrics(
                   IF file.content = "malformed" THEN EmptyDocument ELSE doc,
                   timeframe, now),
        extracted |-> TRUE]

(***************************************************************************)
(* Console lines.  A line is named by the fixed text of its message.       *)
(***************************************************************************)
\* the CallTool handler and the server's getHealthSummary, up to the call of
\* the reader or to the answer: server 2 reports every request, server 1
\* writes nothing here
serverCallLog(ver, name, timeframe) ==
  IF ver # 2 THEN <<>>
  ELSE <<"=== TOOL CALL RECEIVED ===", "Tool", "Arguments">> \o
       (CASE name = "get_health_summary" ->
               <<"Calling getHealthSummary...",
                 "=== GET HEALTH SUMMARY STARTED ===", "Timeframe">>
                 \o (IF timeframe \notin Timeframes
                     THEN <<"Error in getHealthSummary">> ELSE <<>>)
          [] name = "get_workout_details" ->
               <<"Calling getWorkoutDetails...", "=== GET WORKOUT DETAILS STARTED ===">>
          [] name = "get_heart_rate_zones" ->
               <<"Calling getHeartRateZones...", "=== GET HEART RATE ZONES STARTED ===">>
          [] OTHER -> <<"Unknown tool", "Error in tool handler", "Stack trace">>)

\* the first lines of AppleHealthReader.getHealthSummary
readerStartLog(ver) ==
  CASE ver = 2 -> <<"=== HEALTH SUMMARY REQUEST STARTED ===">>
    [] ver = 3 -> <<"=== HEALTH SUMMARY REQUEST STARTED ===", "Requested timeframe",
                    "Step 1: Checking for iPhone data...">>
    [] OTHER -> <<>>

\* readiPhoneData: reader 3 reports what its catch caught (a failed read, a
\* failed JSON.parse, the timestamp of null); reader 2 catches silently; a
\* missing file, a missing timestamp and an old one pass without a line
readiPhoneDataLog(ver, file) ==
  IF ver = 3 /\ file.kind \in {"unreadable", "badjson", "null"}
  THEN <<"Error reading iPhone data">> ELSE <<>>

\* getHealthSummary once readiPhoneData returned, and processiPhoneData
afterStep1Log(ver, fresh) ==
  CASE ver = 2 -> IF fresh THEN <<"Using iPhone data">> ELSE <<>>
    [] ver = 3 -> IF fresh THEN <<"Using iPhone data", "Processing iPhone data...">>
                  ELSE <<"No iPhone data found">>
    [] OTHER -> <<>>

\* checkForAppleHealthData of reader 3, after the line getHealthSummary
\* writes before it calls; readers 1 and 2 check without a line
checkForAppleHealthDataLog(ver, export) ==
  IF ver # 3 THEN <<>>
  ELSE <<"Step 2: Checking for Apple Health export...", "Checking for XML file at">>
       \o (IF export.exists
           THEN <<"Found XML file">>
                \o (IF ~export.readable THEN <<"Error reading XML file">>
                    ELSE IF export.header
                    THEN <<"XML file appears to be valid Apple Health export">>
                    ELSE <<"XML file does not appear to be Apple Health format">>)
           ELSE <<"XML file not found at", "Directory">>)

\* getHealthSummary once checkForAppleHealthData returned, up to the call of
\* the parser or of the generator
afterCheckLog(ver, hasRealData) ==
  CASE ver = 1 ->
         IF hasRealData
         THEN <<"Found Apple Health export data!", "Reading Apple Health data for">>
         ELSE <<"No Apple Health export found, using realistic mock data">>
    [] ver = 2 ->
         <<"Apple Health export exists">>
           \o (IF hasRealData
               THEN <<"Attempting to parse Apple Health XML...",
                      "Attempting to parse Apple Health XML for timeframe">>
               ELSE <<"Using mock data fallback">>)
    [] OTHER ->
         <<"Apple Health export exists">>
           \o (IF hasRealData
               THEN <<"Step 3: Attempting to parse Apple Health XML...",
                      "Parsing Apple Health XML for timeframe">>
               ELSE <<"Step 4: Using mock data fallback">>)

\* getRealisticMockData: reader 3 reports the call and its result
mockLog(ver) ==
  IF ver = 3 THEN <<"Generating mock data for timeframe", "Generated mock data">>
  ELSE <<>>

\* parseHealthData and parseWithTimeout up to the call of parseString
beforeParseLog(ver, file) ==
  IF ver # 2 \/ ~file.exists THEN <<>>
  ELSE IF FileTooLarge(file.size) THEN <<"XML file size", "File too large">>
  ELSE <<"XML file size", "File size acceptable, attempting to parse...",
         "Reading XML file...">>
         \o (IF file.readable THEN <<"Parsing XML...">> ELSE <<"File read error">>)

\* extractHealthMetrics and the extractions it calls; a Record without
\* attributes makes the first filter throw
extractLog(ver, content, doc, timeframe, now) ==
  IF ver = 2
  THEN <<"Total records in XML", "Total workouts in XML", "Filtering data from">>
         \o (IF content = "badrecord" THEN <<>>
             ELSE <<"Filtered records", "Found step records",
                    "Found heart rate records", "Found sleep records",
                    "Found calorie records", "Final metrics">>)
  ELSE <<"Filtering data from">>
         \o (IF content = "badrecord" THEN <<>>
             ELSE <<"Found health records and workouts">>
                    \o (IF filterByRange(doc, getDateRange(timeframe, now)).Record # <<>>
                        THEN <<"Sample record date">> ELSE <<>>)
                    \o <<"Extracted">>)

\* the parseString callback, out being its outcome and lines what the
\* extraction wrote
callbackLog(ver, out, lines) ==
  IF ver = 2
  THEN IF ~out.extracted THEN <<"XML parse error">>
       ELSE <<"XML parsed successfully, extracting metrics...">> \o lines
              \o (IF out.state = "resolved" THEN <<"Metrics extracted">>
                  ELSE <<"Metric extraction error">>)
  ELSE IF out.extracted THEN lines ELSE <<>>

\* the catch of parseHealthData, which parser 1 leaves without a line
parseFailedLog(ver) == IF ver = 2 THEN <<"XML parsing failed">> ELSE <<>>

\* parseAppleHealthData and getHealthSummary once the parser's promise is
\* settled
afterParseLog(ver, state) ==
  IF state = "resolved"
  THEN (IF ver = 2 THEN <<"Successfully parsed XML data">>
        ELSE <<"XML parsing successful", "Successfully parsed Apple Health data">>)
  ELSE (IF ver = 2 THEN <<"XML parsing failed">>
        ELSE <<"XML parsing error", "XML parsing failed",
               "Falling back to mock data...">>)

\* the server's getHealthSummary once the reader returned or threw
serverRespondLog(ver, res, rejects) ==
  IF ver = 2
  THEN (IF res.kind = "throw" THEN <<>> ELSE <<"Health data retrieved">>)
         \o (IF rejects THEN <<"Error in getHealthSummary">>
             ELSE <<"Response prepared">>)
  ELSE IF res.kind = "throw" THEN <<"Error getting health summary">> ELSE <<>>

(***************************************************************************)
(* The reader's constructor and its path fields                            *)
(***************************************************************************)
\* findCorrectHealthPath of reader 3: the first candidate directory that
\* holds an export.xml, and the first candidate when none does
findCorrectHealthPath(exports) ==
  IF exports[NestedDir].exists THEN NestedDir
  ELSE IF exports[DefaultDir].exists THEN DefaultDir
  ELSE NestedDir

\* this.healthDataPath after the constructor; given is its argument, ""
\* when there is none
constructedPath(ver, given, exports) ==
  IF given # "" THEN given
  ELSE IF ver = 3 THEN findCorrectHealthPath(exports)
  ELSE DefaultDir

\* a setHealthDataPath that always builds a new parser
RecreatesParserAlways(ver) == TRUE

\* setHealthDataPath of reader 3 builds a new AppleHealthXMLParser for the
\* new directory; that of reader 2 assigns healthDataPath only
RecreatesParser(ver) == ver = 3

\* a check that stores the directory it resolved in the reader
healthDataPathCached(path, exports) == findCorrectHealthPath(exports)

\* this.healthDataPath after checkForAppleHealthData: the method assigns no
\* field
healthDataPathAfterCheck(path, exports) == path

\* a getHealthSummary call: where it stands, the directory its parser read
\* from, the source of the summary it returned, and whether another call
\* was in flight while it was
IdleCall == [pc |-> "idle", dir |-> "", source |-> "", overlapped |-> FALSE]

InFlight(call) == call.pc \notin {"idle", "done"}

\* the reader after new AppleHealthReader(given), the files being as they are
ReaderConstructed(given) ==
  /\ healthDataPath = constructedPath(readerVer, given, exportAt)
  /\ iCloudPath = DefaultICloud
  /\ exportPath = healthDataPath
  /\ calls = [c \in CallIds |-> IdleCall]

\* the server constructs its reader without an argument; the files the
\* server meets are snapshotFile and exportFile
ReaderOfServer ==
  /\ snapshotAt = [p \in ICloudPaths |-> SnapshotFile("absent", "none", InvalidDate)]
  /\ exportAt = [d \in Dirs |-> AbsentExport]
  /\ ReaderConstructed("")

(***************************************************************************)
(* Initial state: the server is constructed and waits for a request        *)
(***************************************************************************)
\* the server after its constructor: no file yet, no request
Constructed ==
  /\ snapshotFile = SnapshotFile("absent", "none", InvalidDate)
  /\ exportFile = AbsentExport
  /\ request = NoRequest
  /\ start = Date(0, 0)
  /\ elapsed = 0
  /\ pc = "idle"
  /\ ops = <<>>
  /\ iPhoneData = NoiPhoneData
  /\ xmlResult = EmptyDocument
  /\ timer = "none"
  /\ timerDue = 0
  /\ callback = "none"
  /\ callbackDue = 0
  /\ promise = NoPromise
  /\ mockOut = NoHealthData
  /\ result = NoResult
  /\ response = NoResponse
  /\ log = <<>>

\* no function is being called on its own
FnIdle ==
  /\ fn = "none"
  /\ fnVer = 0
  /\ fnNow = Date(0, 0)
  /\ fnTimeframe = ""
  /\ fnDoc = EmptyDocument
  /\ fnDraw = NoDraws
  /\ fnCalls = 0
  /\ fnRange = NoRange
  /\ fnFiltered = EmptyDocument
  /\ fnArrays = EmptyDocument
  /\ fnOut = <<>>

\* the drafts that can be wired together: reader 1 never builds a parser
Drafts ==
  /\ serverVer \in {1, 2}
  /\ readerVer \in {1, 2, 3}
  /\ parserVer \in {1, 2}
  /\ (readerVer = 1 => parserVer = 1)

Init ==
  /\ FnIdle
  /\ Drafts
  /\ Constructed
  /\ ReaderOfServer

(***************************************************************************)
(* The environment writes the two files between requests                   *)
(***************************************************************************)
WriteSnapshot(file) ==
  /\ pc = "idle"
  /\ snapshotFile' = file
  /\ UNCHANGED <<fnVars, readerVars, verVars, exportFile, request, start, elapsed, pc, ops,
                 iPhoneData, parseVars, mockOut, result, response, log>>

WriteExport(file) ==
  /\ pc = "idle"
  /\ exportFile' = file
  /\ UNCHANGED <<fnVars, readerVars, verVars, snapshotFile, request, start, elapsed, pc, ops,
                 iPhoneData, parseVars, mockOut, result, response, log>>

(***************************************************************************)
(* CallTool handler up to the call of healthReader.getHealthSummary        *)
(***************************************************************************)
CallTool(name, timeframe, now) ==
  /\ pc = "idle"
  /\ request' = [name |-> name, timeframe |-> timeframe]
  /\ start' = now
  /\ elapsed' = 0
  /\ IF name = "get_health_summary"
     THEN IF ValidatesTimeframe(serverVer) /\ timeframe \notin Timeframes
          THEN /\ response' = [kind |-> "error", data |-> NoHealthData]
               /\ pc' = "done"
               /\ ops' = <<>>
               /\ log' = serverCallLog(serverVer, name, timeframe)
          ELSE /\ response' = NoResponse
               /\ pc' = "reader"
               /\ ops' = <<"getHealthSummary">>
               /\ log' = serverCallLog(serverVer, name, timeframe)
                           \o readerStartLog(readerVer)
     ELSE /\ response' =
               [kind |-> CASE name = "get_workout_details" -> "workouts"
                           [] name = "get_heart_rate_zones" -> "zones"
                           [] HandlerCatches(serverVer) -> "error"
                           [] OTHER -> "throw",
                data |-> NoHealthData]
          /\ pc' = "done"
          /\ ops' = <<>>
          /\ log' = serverCallLog(serverVer, name, timeframe)
  /\ UNCHANGED <<fnVars, readerVars, verVars, fileVars, iPhoneData, parseVars, mockOut, result>>

(***************************************************************************)
(* AppleHealthReader.getHealthSummary                                      *)
(***************************************************************************)
\* Step 1: await this.readiPhoneData()
ReadiPhoneData ==
  /\ pc = "reader"
  /\ HasLiveSync(readerVer)
  /\ LET fresh == readiPhoneDataReturns(snapshotFile, Now)
         read == IF snapshotFile.kind = "absent" THEN <<>> ELSE <<"readSnapshot">>
     IN \E data \in (IF fresh THEN SnapshotPool ELSE {NoiPhoneData}) :
          IF AfterStep1(fresh) = "iphone"
          THEN /\ iPhoneData' = data
               /\ result' = Returned("iphone",
                                     processiPhoneData(data, request.timeframe))
               /\ ops' = ops \o <<"readiPhoneData">> \o read \o <<"processiPhoneData">>
               /\ log' = log \o readiPhoneDataLog(readerVer, snapshotFile)
                             \o afterStep1Log(readerVer, fresh)
               /\ pc' = "respond"
          ELSE /\ iPhoneData' = NoiPhoneData
               /\ result' = result
               /\ ops' = ops \o <<"readiPhoneData">> \o read
               /\ log' = log \o readiPhoneDataLog(readerVer, snapshotFile)
                             \o afterStep1Log(readerVer, fresh)
               /\ pc' = "check"
  /\ UNCHANGED <<fnVars, readerVars, verVars, fileVars, request, start, elapsed, parseVars,
                 mockOut, response>>

\* what checkForAppleHealthData does to the export: reader 3 opens a file
\* that exists and reads its first 1000 bytes with readSync
CheckOps(ver, export) ==
  <<"checkForAppleHealthData">>
    \o (IF ver = 3 /\ export.exists THEN <<"readSync">> ELSE <<>>)

\* Step 2: await this.checkForAppleHealthData(), and what follows without
\* another await: the mock fallback, or reader 1's parseAppleHealthData
CheckForAppleHealthData ==
  /\ pc = "check" \/ (pc = "reader" /\ ~HasLiveSync(readerVer))
  /\ LET hasRealData == checkForAppleHealthData(readerVer, exportFile)
         toParser == hasRealData /\ readerVer # 1
     IN \E rnd \in (IF toParser THEN {NoDraws} ELSE RandPool) :
          LET mock == getRealisticMockData(readerVer, request.timeframe, Now, rnd)
          IN IF toParser
             THEN /\ pc' = "parse"
                  /\ ops' = ops \o CheckOps(readerVer, exportFile)
                  /\ log' = log \o checkForAppleHealthDataLog(readerVer, exportFile)
                                \o afterCheckLog(readerVer, hasRealData)
                  /\ UNCHANGED <<mockOut, result>>
             ELSE /\ pc' = "respond"
                  /\ ops' = ops \o CheckOps(readerVer, exportFile)
                              \o (IF hasRealData THEN <<"parseAppleHealthData">>
                                  ELSE <<>>)
                              \o <<"getRealisticMockData">>
                  /\ log' = log \o checkForAppleHealthDataLog(readerVer, exportFile)
                                \o afterCheckLog(readerVer, hasRealData)
                                \o mockLog(readerVer)
                  /\ mockOut' = mock
                  /\ result' = Returned("mock", mock)
  /\ UNCHANGED <<fnVars, readerVars, verVars, fileVars, request, start, elapsed, iPhoneData,
                 parseVars, response>>

(***************************************************************************)
(* AppleHealthXMLParser.parseHealthData and parseWithTimeout               *)
(***************************************************************************)
\* a parseHealthData that reads the whole file to learn its size
BeforeReadWholeFile(ver) ==
  <<"parseHealthData", "existsSync", "readFileSync">>

\* the operations parseHealthData performs before it reads the file
BeforeRead(ver) ==
  IF ver = 2 THEN <<"parseHealthData", "existsSync", "statSync">>
  ELSE <<"parseHealthData", "existsSync">>

\* parser 2 arms the timer before it reads the file
ArmsTimer(ver) == ver = 2

\* The synchronous part: the existence test, the size guard, setTimeout,
\* readFileSync and the call of parseString.  Unless the library defers
\* its callback, the callback has run when parseString returns.  When the
\* promise is settled here, getHealthSummary completes in the same turn.
ParseHealthData ==
  /\ pc = "parse"
  /\ \E doc \in DocumentsOf(exportFile) :
       LET file == exportFile
           timed == ArmsTimer(parserVer)
           readEnd == elapsed + file.readMs
           cbAt == readEnd + file.parseMs
           armed == IF timed THEN <<"setTimeout">> ELSE <<>>
           cleared == IF timed THEN <<"clearTimeout">> ELSE <<>>
       \* (bound by \E so that each is computed once per document)
       IN \E out \in {CallbackOutcome(file, doc, request.timeframe,
                                      AddMs(start, cbAt))} :
          \E lines \in {IF file.exists /\ file.readable /\ ~file.async
                        THEN callbackLog(parserVer, out,
                               extractLog(parserVer, file.content, doc,
                                          request.timeframe, AddMs(start, cbAt)))
                        ELSE <<>>} :
          \E sync \in {
             CASE ~file.exists ->
                    [p |-> Settled("rejected", "not found", elapsed),
                     ops |-> <<"parseHealthData", "existsSync">>,
                     timer |-> "none", callback |-> "none", data |-> NoHealthData]
               [] HasSizeGuard(parserVer) /\ FileTooLarge(file.size) ->
                    [p |-> Settled("rejected", "too large", elapsed),
                     ops |-> BeforeRead(parserVer),
                     timer |-> "none", callback |-> "none", data |-> NoHealthData]
               [] ~file.readable ->
                    [p |-> Settled("rejected", "read error", readEnd),
                     ops |-> BeforeRead(parserVer) \o armed \o <<"readFileSync">>
                               \o cleared,
                     timer |-> IF timed THEN "cleared" ELSE "none",
                     callback |-> "none", data |-> NoHealthData]
               [] ~file.async ->
                    [p |-> Settled(out.state, out.error, cbAt),
                     ops |-> BeforeRead(parserVer) \o armed
                               \o <<"readFileSync", "parseString", "parseCallback">>
                               \o cleared
                               \o (IF out.extracted THEN <<"extractHealthMetrics">>
                                   ELSE <<>>),
                     timer |-> IF timed THEN "cleared" ELSE "none",
                     callback |-> "done", data |-> out.data]
               [] OTHER ->
                    [p |-> Settled("pending", "", 0),
                     ops |-> BeforeRead(parserVer) \o armed
                               \o <<"readFileSync", "parseString">>,
                     timer |-> IF timed THEN "armed" ELSE "none",
                     callback |-> "pending", data |-> NoHealthData]} :
          \E rnd \in (IF sync.p.state = "rejected" THEN RandPool ELSE {NoDraws}) :
            LET at == IF sync.p.state = "pending" THEN readEnd ELSE sync.p.at
                mock == getRealisticMockData(readerVer, request.timeframe,
                                             AddMs(start, at), rnd)
                res == AfterParse(readerVer, sync.p, sync.data, mock)
            IN /\ elapsed' = at
               /\ promise' = sync.p
               /\ timer' = sync.timer
               /\ timerDue' = IF timed THEN elapsed + PARSE_TIMEOUT_MS ELSE 0
               /\ callback' = sync.callback
               /\ callbackDue' = IF sync.callback = "pending" THEN cbAt ELSE 0
               /\ xmlResult' = IF sync.callback = "none" THEN EmptyDocument ELSE doc
               /\ IF sync.p.state = "pending"
                  THEN /\ pc' = "await"
                       /\ ops' = ops \o <<"parseAppleHealthData">> \o sync.ops
                       /\ log' = log \o beforeParseLog(parserVer, file)
                       /\ UNCHANGED <<mockOut, result>>
                  ELSE /\ pc' = "respond"
                       /\ result' = res
                       /\ mockOut' = IF res.source = "mock" THEN mock ELSE mockOut
                       /\ ops' = ops \o <<"parseAppleHealthData">> \o sync.ops
                                   \o (IF res.source = "mock"
                                       THEN <<"getRealisticMockData">> ELSE <<>>)
                       /\ log' = log \o beforeParseLog(parserVer, file)
                                     \o (IF sync.callback = "done" THEN lines ELSE <<>>)
                                     \o (IF sync.p.state = "rejected"
                                         THEN parseFailedLog(parserVer) ELSE <<>>)
                                     \o afterParseLog(readerVer, sync.p.state)
                                     \o (IF res.source = "mock"
                                         THEN mockLog(readerVer) ELSE <<>>)
  /\ UNCHANGED <<fnVars, readerVars, verVars, fileVars, request, start, iPhoneData, response>>

\* the timer callback: reject(new Error('XML parsing timeout'))
TimerFires ==
  /\ timer = "armed"
  /\ timerDue <= callbackDue
  /\ \E rnd \in RandPool :
       LET at == Max(elapsed, timerDue)
           p == Settled("rejected", "timeout", at)
           mock == getRealisticMockData(readerVer, request.timeframe,
                                        AddMs(start, at), rnd)
           res == AfterParse(readerVer, p, NoHealthData, mock)
       IN /\ elapsed' = at
          /\ timer' = "fired"
          /\ promise' = p
          /\ result' = res
          /\ mockOut' = IF res.source = "mock" THEN mock ELSE mockOut
          /\ ops' = ops \o <<"timeout">>
                      \o (IF res.source = "mock" THEN <<"getRealisticMockData">>
                          ELSE <<>>)
          /\ log' = log \o <<"XML parsing timed out">> \o parseFailedLog(parserVer)
                        \o afterParseLog(readerVer, "rejected")
                        \o (IF res.source = "mock" THEN mockLog(readerVer) ELSE <<>>)
          /\ pc' = "respond"
  /\ UNCHANGED <<fnVars, readerVars, verVars, fileVars, request, start, iPhoneData, xmlResult,
                 timerDue, callback, callbackDue, response>>

\* a promise that every resolve or reject settles anew
SettlesAgain(p) == TRUE

\* resolve and reject act on a pending promise only
SettlesPromise(p) == p.state = "pending"

\* the parseString callback in a later turn: clearTimeout, then reject or
\* extract and resolve; settling a settled promise changes nothing
ParseCallback ==
  /\ callback = "pending"
  /\ timer = "armed" => callbackDue <= timerDue
  /\ LET at == Max(elapsed, callbackDue)
         first == SettlesPromise(promise)
     IN \E out \in {CallbackOutcome(exportFile, xmlResult, request.timeframe,
                                    AddMs(start, at))} :
        \E rnd \in (IF first /\ out.state = "rejected" THEN RandPool ELSE {NoDraws}) :
          LET p == Settled(out.state, out.error, at)
              done == <<"parseCallback">>
                        \o (IF ArmsTimer(parserVer) THEN <<"clearTimeout">> ELSE <<>>)
                        \o (IF out.extracted THEN <<"extractHealthMetrics">> ELSE <<>>)
              mock == getRealisticMockData(readerVer, request.timeframe,
                                           AddMs(start, at), rnd)
              res == AfterParse(readerVer, p, out.data, mock)
              lines == callbackLog(parserVer, out,
                         extractLog(parserVer, exportFile.content, xmlResult,
                                    request.timeframe, AddMs(start, at)))
          IN /\ elapsed' = at
             /\ callback' = "done"
             /\ timer' = IF timer = "armed" THEN "cleared" ELSE timer
             /\ IF first
                THEN /\ promise' = p
                     /\ result' = res
                     /\ mockOut' = IF res.source = "mock" THEN mock ELSE mockOut
                     /\ ops' = ops \o done
                                 \o (IF res.source = "mock"
                                     THEN <<"getRealisticMockData">> ELSE <<>>)
                     /\ log' = log \o lines
                                   \o (IF out.state = "rejected"
                                       THEN parseFailedLog(parserVer) ELSE <<>>)
                                   \o afterParseLog(readerVer, out.state)
                                   \o (IF res.source = "mock"
                                       THEN mockLog(readerVer) ELSE <<>>)
                     /\ pc' = "respond"
                ELSE /\ ops' = ops \o done
                     /\ log' = log \o lines
                     /\ UNCHANGED <<promise, result, mockOut, pc>>
  /\ UNCHANGED <<fnVars, readerVars, verVars, fileVars, request, start, iPhoneData, xmlResult,
                 timerDue, callbackDue, response>>

(***************************************************************************)
(* The server's getHealthSummary after the reader returned                 *)
(***************************************************************************)
\* server 2: if (!healthData || typeof healthData.steps === 'undefined')
RejectsResult(ver, res) ==
  \/ res.kind = "throw"
  \/ (ver = 2 /\ res.data.steps.t = "undef")

Respond ==
  /\ pc = "respond"
  /\ response' = IF RejectsResult(serverVer, result)
                 THEN [kind |-> "error", data |-> NoHealthData]
                 ELSE [kind |-> "summary", data |-> result.data]
  /\ log' = log \o serverRespondLog(serverVer, result,
                                     RejectsResult(serverVer, result))
  /\ pc' = "done"
  /\ UNCHANGED <<fnVars, readerVars, verVars, fileVars, request, start, elapsed, ops, iPhoneData,
                 parseVars, mockOut, result>>

\* the request is answered and no callback of it is left: wait for the next
Complete ==
  /\ pc = "done"
  /\ callback # "pending"
  /\ request' = NoRequest
  /\ start' = Date(0, 0)
  /\ elapsed' = 0
  /\ pc' = "idle"
  /\ ops' = <<>>
  /\ iPhoneData' = NoiPhoneData
  /\ xmlResult' = EmptyDocument
  /\ timer' = "none"
  /\ timerDue' = 0
  /\ callback' = "none"
  /\ callbackDue' = 0
  /\ promise' = NoPromise
  /\ mockOut' = NoHealthData
  /\ result' = NoResult
  /\ response' = NoResponse
  /\ log' = <<>>
  /\ UNCHANGED <<fnVars, readerVars, verVars, fileVars>>

Next ==
  \/ \E file \in SnapshotFiles : WriteSnapshot(file)
  \/ \E file \in ExportFiles : WriteExport(file)
  \/ \E name \in ToolNames, now \in NowSamples :
       \E timeframe \in (IF name = "get_health_summary" THEN TimeframeInputs
                         ELSE {""}) :
         CallTool(name, timeframe, now)
  \/ ReadiPhoneData
  \/ CheckForAppleHealthData
  \/ ParseHealthData
  \/ TimerFires
  \/ ParseCallback
  \/ Respond
  \/ Complete

Spec == Init /\ [][Next]_vars

(***************************************************************************)
(* The functions called on their own: one call of getDateRange, of         *)
(* getRealisticMockData, or of extractHealthMetrics with a second run of   *)
(* the extractions on the arrays the first run used                        *)
(***************************************************************************)
FnInit ==
  /\ serverVer = 2 /\ readerVer = 3 /\ parserVer = 2
  /\ Constructed
  /\ ReaderOfServer
  /\ fnCalls = 0
  /\ fnRange = NoRange
  /\ fnFiltered = EmptyDocument
  /\ fnArrays = EmptyDocument
  /\ fnOut = <<>>
  /\ fnTimeframe \in TimeframeInputs
  /\ \/ /\ fn = "range"
        /\ fnNow \in RangeNows
        /\ fnVer = 0 /\ fnDoc = EmptyDocument /\ fnDraw = NoDraws
     \/ /\ fn = "extract"
        /\ fnNow = ExtractNow
        /\ fnDoc \in FnDocuments
        /\ fnVer = 0 /\ fnDraw = NoDraws
     \/ /\ fn = "mock"
        /\ fnNow \in MockNows
        /\ fnVer \in {1, 2, 3}
        /\ fnDraw \in RandPool
        /\ fnDoc = EmptyDocument

\* getDateRange(timeframe)
GetDateRange ==
  /\ fn = "range" /\ fnCalls = 0
  /\ fnRange' = getDateRange(fnTimeframe, fnNow)
  /\ fnCalls' = 1
  /\ UNCHANGED <<serverVars, readerVars, fn, fnVer, fnNow, fnTimeframe, fnDoc, fnDraw,
                 fnFiltered, fnArrays, fnOut>>

\* extractHealthMetrics(xmlResult, timeframe)
ExtractHealthMetrics ==
  /\ fn = "extract" /\ fnCalls = 0
  /\ \E range \in {getDateRange(fnTimeframe, fnNow)} :
     \E filtered \in {filterByRange(fnDoc, range)} :
       /\ fnRange' = range
       /\ fnFiltered' = filtered
       /\ fnArrays' = runExtractions(filtered).arrays
       /\ fnOut' = <<extractHealthMetrics(fnDoc, fnTimeframe, fnNow)>>
  /\ fnCalls' = 1
  /\ UNCHANGED <<serverVars, readerVars, fn, fnVer, fnNow, fnTimeframe, fnDoc, fnDraw>>

\* the five extractions once more, on the arrays the first run worked on
ExtractAgain ==
  /\ fn = "extract" /\ fnCalls = 1
  /\ \E run \in {runExtractions(fnArrays)} :
       /\ fnArrays' = run.arrays
       /\ fnOut' = Append(fnOut, run.out)
  /\ fnCalls' = 2
  /\ UNCHANGED <<serverVars, readerVars, fn, fnVer, fnNow, fnTimeframe, fnDoc, fnDraw,
                 fnRange, fnFiltered>>

\* getRealisticMockData(timeframe)
GetRealisticMockData ==
  /\ fn = "mock" /\ fnCalls = 0
  /\ fnOut' = <<getRealisticMockData(fnVer, fnTimeframe, fnNow, fnDraw)>>
  /\ fnCalls' = 1
  /\ UNCHANGED <<serverVars, readerVars, fn, fnVer, fnNow, fnTimeframe, fnDoc, fnDraw,
                 fnRange, fnFiltered, fnArrays>>

FnNext ==
  \/ GetDateRange
  \/ ExtractHealthMetrics
  \/ ExtractAgain
  \/ GetRealisticMockData

FnSpec == FnInit /\ [][FnNext]_vars

(***************************************************************************)
(* getHealthSummary called on one reader directly, up to two calls in      *)
(* flight at a time, and the two path setters.  A call runs from one await *)
(* to the next in one step.                                                *)
(***************************************************************************)
\* how the promise of parseHealthData settles for a file: the guards, the
\* read, and the timer or the parseString callback, whichever is due first
parseSettles(ver, file) ==
  IF ~file.exists THEN "rejected"
  ELSE IF HasSizeGuard(ver) /\ FileTooLarge(file.size) THEN "rejected"
  ELSE IF ~file.readable THEN "rejected"
  ELSE IF ArmsTimer(ver) /\ file.async
          /\ PARSE_TIMEOUT_MS <= file.readMs + file.parseMs THEN "rejected"
  ELSE CallbackOutcome(file, EmptyDocument, "today", DirectNow).state

\* the source of the summary once the parser's promise is settled
sourceAfterParse(ver, state) ==
  IF state = "resolved" THEN "export"
  ELSE IF OnXmlFailure(ver) = "mock" THEN "mock"
  ELSE "throw"

\* setHealthDataPath(path), between calls
SetHealthDataPath(dir) ==
  /\ \A c \in CallIds : calls[c].pc = "idle"
  /\ healthDataPath' = dir
  /\ exportPath' = IF RecreatesParser(readerVer) THEN dir ELSE exportPath
  /\ UNCHANGED <<serverVars, fnVars, iCloudPath, snapshotAt, exportAt, calls>>

\* setiCloudPath(path), between calls
SetiCloudPath(path) ==
  /\ \A c \in CallIds : calls[c].pc = "idle"
  /\ iCloudPath' = path
  /\ UNCHANGED <<serverVars, fnVars, healthDataPath, exportPath, snapshotAt,
                 exportAt, calls>>

\* getHealthSummary(timeframe) is called
BeginSummary(c) ==
  /\ calls[c].pc = "idle"
  /\ LET other == \E d \in CallIds \ {c} : InFlight(calls[d])
     IN calls' = [d \in CallIds |->
                    IF d = c THEN [IdleCall EXCEPT !.pc = "reader",
                                                   !.overlapped = other]
                    ELSE IF InFlight(calls[d])
                    THEN [calls[d] EXCEPT !.overlapped = TRUE]
                    ELSE calls[d]]
  /\ UNCHANGED <<serverVars, fnVars, healthDataPath, iCloudPath, exportPath,
                 snapshotAt, exportAt>>

\* Step 1 of a call: await this.readiPhoneData()
ReadSnapshot(c) ==
  /\ calls[c].pc = "reader"
  /\ LET fresh == readiPhoneDataReturns(snapshotAt[iCloudPath], DirectNow)
     IN calls' = [calls EXCEPT ![c] =
                    IF AfterStep1(fresh) = "iphone"
                    THEN [@ EXCEPT !.pc = "done", !.source = "iphone"]
                    ELSE [@ EXCEPT !.pc = "check"]]
  /\ UNCHANGED <<serverVars, fnVars, healthDataPath, iCloudPath, exportPath,
                 snapshotAt, exportAt>>

\* Step 2 of a call: await this.checkForAppleHealthData()
CheckExport(c) ==
  /\ calls[c].pc = "check"
  /\ LET hasRealData == checkForAppleHealthData(readerVer, exportAt[healthDataPath])
     IN calls' = [calls EXCEPT ![c] =
                    IF hasRealData THEN [@ EXCEPT !.pc = "parse"]
                    ELSE [@ EXCEPT !.pc = "done", !.source = "mock"]]
  /\ healthDataPath' = healthDataPathAfterCheck(healthDataPath, exportAt)
  /\ UNCHANGED <<serverVars, fnVars, iCloudPath, exportPath, snapshotAt, exportAt>>

\* Step 3 of a call: this.xmlParser.parseHealthData(timeframe) up to its
\* await; the promise is settled by then unless the library calls back in a
\* later turn
ParseExport(c) ==
  /\ calls[c].pc = "parse"
  /\ LET file == exportAt[exportPath]
         pending == /\ file.exists /\ file.readable /\ file.async
                    /\ ~(HasSizeGuard(parserVer) /\ FileTooLarge(file.size))
     IN calls' = [calls EXCEPT ![c] =
                    IF pending THEN [@ EXCEPT !.pc = "await", !.dir = exportPath]
                    ELSE [@ EXCEPT !.pc = "done", !.dir = exportPath,
                                   !.source = sourceAfterParse(readerVer,
                                                parseSettles(parserVer, file))]]
  /\ UNCHANGED <<serverVars, fnVars, healthDataPath, iCloudPath, exportPath,
                 snapshotAt, exportAt>>

\* the timer or the parseString callback of a call settles its promise
SettleParse(c) ==
  /\ calls[c].pc = "await"
  /\ calls' = [calls EXCEPT ![c] =
                 [@ EXCEPT !.pc = "done",
                           !.source = sourceAfterParse(readerVer,
                                        parseSettles(parserVer,
                                                     exportAt[calls[c].dir]))]]
  /\ UNCHANGED <<serverVars, fnVars, healthDataPath, iCloudPath, exportPath,
                 snapshotAt, exportAt>>

\* the caller has taken the summary
ReturnSummary(c) ==
  /\ calls[c].pc = "done"
  /\ calls' = [calls EXCEPT ![c] = IdleCall]
  /\ UNCHANGED <<serverVars, fnVars, healthDataPath, iCloudPath, exportPath,
                 snapshotAt, exportAt>>

\* a reader that owns a parser, constructed with or without a directory,
\* the files being any of the pool's
DirectInit ==
  /\ FnIdle
  /\ serverVer = 2 /\ readerVer \in {2, 3} /\ parserVer \in {1, 2}
  /\ Constructed
  /\ snapshotAt \in [ICloudPaths -> DirectSnapshots]
  /\ exportAt \in [Dirs -> DirectExports]
  /\ \E given \in {""} \cup Dirs : ReaderConstructed(given)

DirectNext ==
  \/ \E dir \in Dirs : SetHealthDataPath(dir)
  \/ \E path \in ICloudPaths : SetiCloudPath(path)
  \/ \E c \in CallIds : BeginSummary(c)
  \/ \E c \in CallIds : ReadSnapshot(c)
  \/ \E c \in CallIds : CheckExport(c)
  \/ \E c \in CallIds : ParseExport(c)
  \/ \E c \in CallIds : SettleParse(c)
  \/ \E c \in CallIds : ReturnSummary(c)

DirectSpec == DirectInit /\ [][DirectNext]_vars

(***************************************************************************)
(* Properties                                                              *)
(***************************************************************************)
\* the request reached AppleHealthReader.getHealthSummary
ReaderCalled == ops # <<>> /\ ops[1] = "getHealthSummary"

\* getHealthSummary has completed
ReaderDone == ReaderCalled /\ pc \in {"respond", "done"}

Invoked(op) == \E i \in 1..Len(ops) : ops[i] = op

\* the snapshot, as the request found it: a JSON object whose timestamp is
\* a date less than 24 hours before the request
SnapshotFresh ==
  /\ snapshotFile.kind = "object"
  /\ snapshotFile.ts = "date"
  /\ DiffMs(start, snapshotFile.time) < 24 * MsPerHour

ExportOps ==
  {"checkForAppleHealthData", "readSync", "parseAppleHealthData",
   "parseHealthData", "existsSync", "statSync", "readFileSync", "parseString",
   "parseCallback",
   "extractHealthMetrics"}

Fields(d) ==
  <<d.steps, d.heartRate.resting, d.heartRate.average, d.heartRate.max,
    d.sleepHours, d.activeCalories, d.workouts>>

\* C1: a getHealthSummary call that finds a fresh snapshot returns
\* processiPhoneData of that snapshot and invokes neither the export check
\* nor the XML parser, whatever the export file is
C1_SourcePrecedence ==
  (ReaderCalled /\ HasLiveSync(readerVer) /\ SnapshotFresh) =>
    /\ \A i \in 1..Len(ops) : ops[i] \notin ExportOps
    /\ pc # "reader" =>
         /\ pc \in {"respond", "done"}
         /\ iPhoneData \in SnapshotPool
         /\ result = Returned("iphone",
                              processiPhoneData(iPhoneData, request.timeframe))

C1_Witness ==
  /\ pc = "done"
  /\ SnapshotFresh
  /\ exportFile.exists /\ exportFile.header /\ exportFile.content = "records"
  /\ result.source = "iphone"
  /\ response.kind = "summary"

\* C2: getHealthSummary never throws: a call that has left its last await
\* has returned a HealthData, and a call that waits for the parser's
\* promise has the parse callback or the timer left to settle it
C2_NeverRejects ==
  /\ result.kind # "throw"
  /\ ReaderDone => result.kind = "return"
  /\ (ReaderCalled /\ ~ReaderDone) => pc \in {"reader", "check", "parse", "await"}
  /\ pc = "await" => ENABLED (TimerFires \/ ParseCallback)

C2_Witness ==
  /\ pc = "done"
  /\ promise.error = "timeout"
  /\ request.timeframe = "month"
  /\ result.kind = "return"

\* the export cannot be read into a summary: it is missing, over the
\* ceiling of a parser that has one, unreadable, malformed, or holds a
\* record the extraction chokes on
ExportUnusable ==
  \/ ~exportFile.exists
  \/ (HasSizeGuard(parserVer) /\ exportFile.size > 100 * 1024 * 1024)
  \/ ~exportFile.readable
  \/ exportFile.content \in {"malformed", "badrecord"}

\* when getRealisticMockData ran for the request
MockTime == AddMs(start, promise.at)

\* C3: when the snapshot gives nothing and the export reader fails (not
\* found, too large, read or parse error, extraction error, timeout), the
\* summary returned is what getRealisticMockData made for the timeframe
C3_FallbackOnExportFailure ==
  (/\ ReaderDone
   /\ HasLiveSync(readerVer)
   /\ result.source # "iphone"
   /\ (ExportUnusable \/ promise.state = "rejected")) =>
    /\ result = Returned("mock", mockOut)
    /\ \E rnd \in RandPool :
         mockOut = getRealisticMockData(readerVer, request.timeframe,
                                        MockTime, rnd)

C3_Witness ==
  /\ pc = "done"
  /\ snapshotFile.kind = "absent"
  /\ promise.error = "parse error"
  /\ result.source = "mock"
  /\ response.kind = "summary"

\* C4: the snapshot is consumed only if it is a JSON object with a
\* timestamp strictly less than 24 hours old; otherwise readiPhoneData
\* returns null and the resolver goes on to the export check
C4_FreshnessGate ==
  (ReaderCalled /\ HasLiveSync(readerVer) /\ pc # "reader") =>
    /\ result.source = "iphone" => SnapshotFresh
    /\ ~SnapshotFresh =>
         /\ iPhoneData = NoiPhoneData
         /\ ~Invoked("processiPhoneData")
         /\ pc = "check" \/ Invoked("checkForAppleHealthData")

\* the snapshot's timestamp is exactly 24 hours before the request
C4_Witness ==
  /\ pc = "done"
  /\ HasLiveSync(readerVer)
  /\ snapshotFile.ts = "date"
  /\ DiffMs(start, snapshotFile.time) = 24 * MsPerHour
  /\ result.source = "mock"

\* C5: in parser 2 a file whose size exceeds 100 MB makes parseHealthData
\* fail with the file-too-large error without readFileSync or parseString
C5_SizeGuardOrdering ==
  (/\ parserVer = 2
   /\ Invoked("parseHealthData")
   /\ exportFile.size > 100 * 1024 * 1024) =>
    /\ promise.state = "rejected"
    /\ promise.error = "too large"
    /\ ~Invoked("readFileSync")
    /\ ~Invoked("parseString")
    /\ callback = "none"

\* the file is one byte over the ceiling
C5_Witness ==
  /\ parserVer = 2
  /\ Invoked("parseHealthData")
  /\ exportFile.size = 100 * 1024 * 1024 + 1
  /\ promise.error = "too large"
  /\ pc = "done"

\* C6: in parser 2, when reading and parsing take longer than
\* PARSE_TIMEOUT_MS, the promise is rejected with the timeout error no
\* later than PARSE_TIMEOUT_MS after the timer was set
C6_ParseTimeout ==
  (/\ parserVer = 2
   /\ Invoked("readFileSync")
   /\ exportFile.readable
   /\ exportFile.readMs + exportFile.parseMs > PARSE_TIMEOUT_MS
   /\ promise.state \in {"resolved", "rejected"}) =>
    /\ promise.error = "timeout"
    /\ promise.at <= timerDue

\* C7: every summary getHealthSummary returns has seven numeric fields
C7_CompleteNumeric ==
  ReaderDone =>
    \A i \in 1..7 : IsNumeric(Fields(result.data)[i])

\* C8: for a valid timeframe every numeric field of the returned summary
\* is non-negative and the heart-rate values are positive
C8_NonNegative ==
  (ReaderDone /\ request.timeframe \in Timeframes) =>
    /\ \A i \in {1, 5, 6, 7} :
         IsNumeric(Fields(result.data)[i]) => Fields(result.data)[i].v >= 0
    /\ \A i \in {2, 3, 4} :
         IsNumeric(Fields(result.data)[i]) => Fields(result.data)[i].v > 0

\* C9: steps, the heart-rate values, activeCalories and workouts of every
\* returned summary are integers
C9_IntegerFields ==
  ReaderDone =>
    \A i \in {1, 2, 3, 4, 6, 7} :
      IsNumeric(Fields(result.data)[i]) => IsInteger(Fields(result.data)[i])

\* C10: a get_health_summary request with a timeframe outside today, week,
\* month is answered with an error text and never reaches the reader
C10_TimeframeValidation ==
  (/\ request.name = "get_health_summary"
   /\ request.timeframe \notin Timeframes) =>
    /\ ~ReaderCalled
    /\ pc = "done" => response.kind = "error"

\* the first run of the extractions has returned
Extracted == fn = "extract" /\ fnCalls >= 1

\* C11: when the window filters leave no record and no workout,
\* extractHealthMetrics returns steps 0, heart rate 60/80/120, sleepHours
\* 7.5, activeCalories 0 and workouts 0
C11_EmptyInputBoundary ==
  (Extracted /\ fnFiltered = EmptyDocument) =>
    fnOut[1] = HealthData(Whole(0), Whole(60), Whole(80), Whole(120),
                          Num(75), Whole(0), Whole(0))

\* the document has records and workouts, all of them outside the window
C11_Witness ==
  /\ Extracted
  /\ fnDoc.Record # <<>> /\ fnDoc.Workout # <<>>
  /\ fnFiltered = EmptyDocument
  /\ fnOut[1].sleepHours = Num(75)

\* C12: the resting value is the rounded value of the RestingHeartRate
\* record with the latest startDate, and 60 when there is none, whether or
\* not the set holds HeartRate records
C12_RestingHeartRate ==
  Extracted =>
    LET resting == OfType(fnFiltered.Record, RestingHeartRate)
    IN fnOut[1].heartRate.resting =
         IF resting = <<>> THEN Whole(60)
         ELSE MathRound(parseFloat(resting[LatestIndex(resting)].value))

\* getHealthSummary returned the summary processiPhoneData made
FromSnapshot == ReaderDone /\ result.source = "iphone"

\* C13: a numeric heartRate h of the snapshot (0 included) is returned as
\* resting h - 10, average h, max h + 60, and the steps, sleepHours and
\* activeCalories the snapshot carries are returned unchanged
C13_LiveSyncHeartRateMapping ==
  FromSnapshot =>
    /\ iPhoneData.heartRate.t = "num" =>
         /\ result.data.heartRate.resting = Num(iPhoneData.heartRate.v - 100)
         /\ result.data.heartRate.average = iPhoneData.heartRate
         /\ result.data.heartRate.max = Num(iPhoneData.heartRate.v + 600)
    /\ iPhoneData.steps.t = "num" => result.data.steps = iPhoneData.steps
    /\ iPhoneData.sleepHours.t = "num" =>
         result.data.sleepHours = iPhoneData.sleepHours
    /\ iPhoneData.activeCalories.t = "num" =>
         result.data.activeCalories = iPhoneData.activeCalories

\* C14: a field the snapshot lacks is defaulted on its own: steps 0, heart
\* rate 65/75/135, sleepHours 7.5, activeCalories 400
C14_LiveSyncDefaults ==
  FromSnapshot =>
    /\ iPhoneData.steps = Undef => result.data.steps = Whole(0)
    /\ iPhoneData.heartRate = Undef =>
         result.data.heartRate =
           [resting |-> Whole(65), average |-> Whole(75), max |-> Whole(135)]
    /\ iPhoneData.sleepHours = Undef => result.data.sleepHours = Num(75)
    /\ iPhoneData.activeCalories = Undef =>
         result.data.activeCalories = Whole(400)

\* C15: for today the summary has workouts 1 exactly when its own
\* activeCalories is above 300, else 0; for week and month workouts is 5
C15_LiveSyncWorkoutCount ==
  FromSnapshot =>
    /\ request.timeframe = "today" =>
         result.data.workouts =
           (IF JsGt(result.data.activeCalories, Whole(300))
            THEN Whole(1) ELSE Whole(0))
    /\ request.timeframe \in {"week", "month"} =>
         result.data.workouts = Whole(5)

\* getDateRange has returned, called on its own or by extractHealthMetrics
RangeMade == fn \in {"range", "extract"} /\ fnCalls >= 1

\* the days the window of a timeframe reaches back
DaysBack == [tf \in Timeframes |->
               CASE tf = "today" -> 0 [] tf = "week" -> 7 [] OTHER -> 30]

\* C16: for now on day D the window ends at D 23:59:59.999 and starts at
\* 00:00:00.000 of D (today), of D - 7 (week) or of D - 30 (month)
C16_TimeWindowValues ==
  (RangeMade /\ fnTimeframe \in Timeframes) =>
    /\ fnRange.endDate = Date(fnNow.day, MsPerDay - 1)
    /\ fnRange.startDate = Date(fnNow.day - DaysBack[fnTimeframe], 0)

\* month on 4 January 2025: the window starts on 5 December 2024
C16_Witness ==
  /\ fn = "range" /\ fnCalls = 1
  /\ fnTimeframe = "month"
  /\ GetDate(fnNow) = 4 /\ GetMonth(fnNow) = 0
  /\ Civil(fnRange.startDate.day).year = 2024
  /\ GetMonth(fnRange.startDate) = 11
  /\ GetDate(fnRange.startDate) = 5
  /\ fnRange.startDate.ms = 0

\* C17: whatever now and the timeframe string are, the window getDateRange
\* returns has startDate <= endDate
C17_WindowNeverInverted ==
  RangeMade => DateLE(fnRange.startDate, fnRange.endDate)

\* an unknown timeframe at 23:59:59.999: the window is a single instant
C17_Witness ==
  /\ fn = "range" /\ fnCalls = 1
  /\ fnTimeframe \notin Timeframes
  /\ fnRange.startDate = fnNow
  /\ fnRange.endDate = fnNow

\* how often the request has invoked op
Count(op) == Cardinality({i \in 1..Len(ops) : ops[i] = op})

\* C18: one getHealthSummary call reads the snapshot at most once, checks,
\* reads and parses the export at most once each, and generates mock data
\* at most once
C18_AtMostOneAttempt ==
  \A op \in {"readiPhoneData", "readSnapshot", "checkForAppleHealthData",
             "readSync", "parseAppleHealthData", "parseHealthData",
             "readFileSync", "parseString", "parseCallback",
             "extractHealthMetrics", "getRealisticMockData"} :
    Count(op) <= 1

\* a stale snapshot, then a malformed export, then the generator: each of
\* the three sources was tried, once
C18_Witness ==
  /\ pc = "done"
  /\ Count("readSnapshot") = 1
  /\ Count("readFileSync") = 1
  /\ Count("parseString") = 1
  /\ promise.error = "parse error"
  /\ Count("getRealisticMockData") = 1

\* C19: a second run of the five extractions on the same filtered arrays
\* returns what the first run returned, and the runs leave the arrays as
\* the filters made them, in content and order
C19_ExtractorIdempotence ==
  /\ Extracted => fnArrays = fnFiltered
  /\ (fn = "extract" /\ fnCalls = 2) => fnOut[2] = fnOut[1]

\* the set holds a HeartRate record and two RestingHeartRate records, the
\* later one last, so that the sort has something to reorder
C19_Witness ==
  /\ fn = "extract" /\ fnCalls = 2
  /\ OfType(fnFiltered.Record, HeartRate) # <<>>
  /\ \E i, j \in 1..Len(fnFiltered.Record) :
       /\ i < j
       /\ fnFiltered.Record[i].type = RestingHeartRate
       /\ fnFiltered.Record[j].type = RestingHeartRate
       /\ fnFiltered.Record[i].startDate # fnFiltered.Record[j].startDate
       /\ DateLE(fnFiltered.Record[i].startDate, fnFiltered.Record[j].startDate)
  /\ fnOut[2].heartRate.resting = Whole(54)

\* the three scaled fields of the summary the generator makes for a
\* timeframe at the state's seed, with every Math.random() drawn as r
ScaledAt(timeframe, r) ==
  LET d == getRealisticMockData(fnVer, timeframe, fnNow, Draws(r, r))
  IN <<d.steps.v, d.activeCalories.v, d.workouts.v>>

\* twice the midpoint of the band of field i: its least plus its greatest value
TwiceMid(timeframe, i) == ScaledAt(timeframe, 0)[i] + ScaledAt(timeframe, 999)[i]

\* C20: at every seed the band midpoints of steps, activeCalories and
\* workouts rise from today to week and from week to month
C20_SyntheticMonotonicScaling ==
  (fn = "mock" /\ fnCalls = 1) =>
    \A i \in 1..3 :
      /\ TwiceMid("today", i) < TwiceMid("week", i)
      /\ TwiceMid("week", i) < TwiceMid("month", i)

\* getRealisticMockData, called on its own, has returned
Generated == fn = "mock" /\ fnCalls = 1

C22_HandlerContainment ==
  /\ response.kind # "throw"
  /\ pc = "done" => response.kind \in {"summary", "workouts", "zones", "error"}

\* the startDate of a record or workout lies in the window the call made:
\* it is a date, not before the window's start and not after its end
StartInWindow(r) ==
  LET t == r.startDate
      NotBefore(x, y) == x.day > y.day \/ (x.day = y.day /\ x.ms >= y.ms)
  IN /\ IsValidDate(t)
     /\ NotBefore(t, fnRange.startDate)
     /\ NotBefore(fnRange.endDate, t)

\* C23: the records and workouts extractHealthMetrics works on are those of
\* the document whose startDate is a date t with start <= t <= end of the
\* window, both bounds included, whatever their endDate; the summary
\* is the one extracted from exactly these
C23_WindowFilteringByStart ==
  Extracted =>
    LET selected == [Record |-> SelectSeq(fnDoc.Record, StartInWindow),
                     Workout |-> SelectSeq(fnDoc.Workout, StartInWindow)]
    IN /\ fnFiltered = selected
       /\ fnOut[1] = runExtractions(selected).out

\* today's window; the document holds a record at the window's first
\* millisecond, one that ends inside the window but starts one millisecond
\* before it, one without a valid startDate, and a workout at the window's
\* last millisecond: the first and the workout are counted, the others not
C23_Witness ==
  /\ Extracted /\ fnTimeframe = "today"
  /\ Len(fnDoc.Record) = 3
  /\ \E i \in 1..3 : fnDoc.Record[i].startDate = fnRange.startDate
  /\ \E i \in 1..3 : /\ AddMs(fnDoc.Record[i].startDate, 1) = fnRange.startDate
                     /\ StartInWindow([startDate |-> fnDoc.Record[i].endDate])
  /\ \E i \in 1..3 : ~IsValidDate(fnDoc.Record[i].startDate)
  /\ fnDoc.Workout = <<Workout(fnRange.endDate)>>
  /\ Len(fnFiltered.Record) = 1
  /\ fnOut[1].steps = Whole(8000) /\ fnOut[1].workouts = Whole(1)

\* the five type tags the extractions ask for
RecognisedTypes ==
  {StepCount, HeartRate, RestingHeartRate, SleepAnalysis, ActiveEnergyBurned}

\* the document without its records of other kinds
WithoutUnrecognised(doc) ==
  [doc EXCEPT !.Record = SelectSeq(@, LAMBDA r : r.type \in RecognisedTypes)]

\* C24: the summary of a document is the summary of the same document
\* without its records of unrecognised kinds, so adding or removing such
\* records, in the window or not, changes no field
C24_UnrecognisedKindsInert ==
  Extracted =>
    fnOut[1] = extractHealthMetrics(WithoutUnrecognised(fnDoc), fnTimeframe, fnNow)

\* a body-mass record in the window next to a step record and a heart-rate
\* record in the window: steps and average come from those two alone
C24_Witness ==
  /\ Extracted
  /\ Len(fnFiltered.Record) = 3
  /\ \E i \in 1..3 : fnFiltered.Record[i].type \notin RecognisedTypes
  /\ fnOut[1].steps = Whole(8000)
  /\ fnOut[1].heartRate.average = Whole(72)

\* a >= b as JavaScript evaluates it: two strings are compared by code
\* units (the strings that meet here are a snapshot field and the same field
\* with "60" appended, so the longer one is the greater or equal one),
\* anything else as numbers, and a comparison with NaN is false
JsGe(a, b) ==
  IF a.t = "str" /\ b.t = "str"
  THEN a.s = b.s \/ a.s = b.s \o "60"
  ELSE LET na == ToNumber(a)
           nb == ToNumber(b)
       IN na.t = "num" /\ nb.t = "num" /\ na.v >= nb.v

\* C25: in every summary getHealthSummary returns, from the snapshot, the
\* export or the generator, heartRate.max >= heartRate.average
C25_HeartRateOrdering ==
  ReaderDone => JsGe(result.data.heartRate.max, result.data.heartRate.average)

\* the promise of parseWithTimeout has its outcome
PromiseSettled == promise.state \in {"resolved", "rejected"}

\* C28: while a request is in progress a settled promise and the result made
\* from it never change; a pending promise is settled by the step that
\* happens first, as a timeout when that is the timer and as the callback's
\* or the read's outcome otherwise; a timer is cleared by the callback or the
\* read error that comes first, and a cleared timer never fires
C28_RaceSettlesOnce ==
  [][pc' # "idle" =>
       /\ PromiseSettled => (promise' = promise /\ result' = result)
       /\ (~PromiseSettled /\ PromiseSettled' /\ Invoked("setTimeout")') =>
            /\ (promise'.error = "timeout") = (timer' = "fired")
            /\ timer' # "fired" =>
                 /\ timer' = "cleared"
                 /\ callback' = "done" \/ promise'.error = "read error"
       /\ timer = "cleared" => timer' = "cleared"
       /\ timer = "fired" => timer' = "fired"]_vars

\* the timer fired first and the parse callback came later with a document
\* it extracted from: the promise is still the timeout and the summary the
\* fallback made for it
C28_Witness ==
  /\ timer = "fired" /\ callback = "done"
  /\ \E i, j \in 1..Len(ops) :
       i < j /\ ops[i] = "timeout" /\ ops[j] = "extractHealthMetrics"
  /\ promise.state = "rejected" /\ promise.error = "timeout"
  /\ result.source = "mock"

\* the lines that speak of the live-sync step
LiveSyncLines ==
  {"Step 1: Checking for iPhone data...", "Error reading iPhone data",
   "Using iPhone data", "Processing iPhone data...", "No iPhone data found"}

\* the lines that speak of the export step: of the check, of the parse and
\* of the fallback taken for want of an export
ExportLines ==
  {"Step 2: Checking for Apple Health export...", "Checking for XML file at",
   "Found XML file", "Error reading XML file",
   "XML file appears to be valid Apple Health export",
   "XML file does not appear to be Apple Health format",
   "XML file not found at", "Directory", "Apple Health export exists",
   "No Apple Health export found, using realistic mock data",
   "Found Apple Health export data!", "Reading Apple Health data for",
   "Attempting to parse Apple Health XML...",
   "Attempting to parse Apple Health XML for timeframe",
   "Step 3: Attempting to parse Apple Health XML...",
   "Parsing Apple Health XML for timeframe",
   "XML file size", "File too large", "Reading XML file...", "File read error",
   "XML parse error", "Metric extraction error", "XML parsing timed out",
   "XML parsing failed", "XML parsing error", "Falling back to mock data..."}

Logged(lines) == \E i \in 1..Len(log) : log[i] \in lines

\* the live-sync step of the request gave no summary: the snapshot was
\* absent, unreadable, invalid or stale
LiveSyncFailed ==
  ReaderDone /\ HasLiveSync(readerVer) /\ result.source # "iphone"

\* the export step of the request gave no summary: the call came back with
\* the fallback
ExportFailed == ReaderDone /\ result.source = "mock"

\* C27: when getHealthSummary returns after its live-sync step or its
\* export step gave nothing, the log holds a line about that step
C27_FailuresObservable ==
  /\ LiveSyncFailed => Logged(LiveSyncLines)
  /\ ExportFailed => Logged(ExportLines)

\* the export step alone: whenever the call comes back with the fallback,
\* the log holds a line about the export step
ExportFailuresLogged == ExportFailed => Logged(ExportLines)

\* reader 3 alone: a line about the live-sync step in every call
LiveSyncLoggedByReader3 ==
  (LiveSyncFailed /\ readerVer = 3) => Logged(LiveSyncLines)

\* the source a call selects when it runs alone on the reader and the
\* files as they are
SourceAlone ==
  IF readiPhoneDataReturns(snapshotAt[iCloudPath], DirectNow) THEN "iphone"
  ELSE IF ~checkForAppleHealthData(readerVer, exportAt[healthDataPath]) THEN "mock"
  ELSE IF parseSettles(parserVer, exportAt[exportPath]) = "resolved" THEN "export"
  ELSE "mock"

\* C26: a step of a getHealthSummary call leaves healthDataPath, iCloudPath
\* and the parser's exportPath as they are, and every call, whatever the
\* other call did between its steps, returns from the source it selects
\* when run alone
C26_NoInterference ==
  /\ [][calls' # calls => UNCHANGED <<healthDataPath, iCloudPath, exportPath>>]_vars
  /\ [](\A c \in CallIds : calls[c].pc = "done" => calls[c].source = SourceAlone)

\* call 1 has returned from the export while call 2, which was in flight
\* next to it, still waits for its own parse
C26_Witness ==
  /\ calls[1].pc = "done" /\ calls[1].overlapped /\ calls[1].source = "export"
  /\ calls[2].pc = "await" /\ calls[2].overlapped

\* C29: the directory getHealthSummary checks for export.xml is the
\* directory the parser reads export.xml from, after construction and after
\* every setHealthDataPath
C29_ExportPathConsistency == exportPath = healthDataPath

\* parseSettles tells how the promise settles in the server's requests
ParseSettlesAgrees ==
  (PromiseSettled /\ Invoked("parseHealthData")) =>
    promise.state = parseSettles(parserVer, exportFile)

====
